---------------------------- MODULE Spec2Model ----------------------------
(***************************************************************************)
(* Model of the odds distribution calculator: lib/odds.ts,                 *)
(* lib/distribution.ts and lib/validation.ts.                              *)
(*                                                                         *)
(* A JavaScript number is modelled as an exact rational [n, d] in lowest   *)
(* terms with d > 0, so two numbers are equal exactly when their records   *)
(* are equal.  Rounding of IEEE doubles is outside the model: every        *)
(* statement about a sum or a difference is a statement in exact           *)
(* arithmetic.                                                             *)
(*                                                                         *)
(* Labels are the template strings of the source; the characters U+2264    *)
(* and U+2265 are written "<=" and ">=".                                   *)
(***************************************************************************)
EXTENDS Integers, Sequences, FiniteSets, TLC

VARIABLES
    lines,        \* the Line[] argument of the two line functions
    implied,      \* oddsToImpliedProbability: outcome by argument, once called
    normalized,   \* calculateProbabilityDistribution: its sorted local array
    ranges,       \* calculateProbabilityDistribution: the returned OutcomeRange[]
    validation,   \* validateLines: the returned ValidationResult
    returned,     \* the functions that have returned on this input
    form,         \* app/page.tsx: direction, lineValue, odds and formError
    marketEfficiency  \* app/page.tsx: the Market Efficiency card as rendered

vars == <<lines, implied, normalized, ranges, validation, returned,
          form, marketEfficiency>>

---------------------------------------------------------------------------
(* Bounds of the model. *)

MaxLines == 3

MaxOdds == 300

\* The page accepts a new line while it holds fewer lines than this.
MaxPageLines == 2

---------------------------------------------------------------------------
(* Exact arithmetic on numbers. *)

Abs(x) == IF x < 0 THEN -x ELSE x

RECURSIVE GCD(_, _)
GCD(a, b) == IF b = 0 THEN a ELSE GCD(b, a % b)

\* The number n/d (d # 0) in lowest terms with a positive denominator.
R(n, d) ==
    LET g == GCD(Abs(n), Abs(d))
        s == IF d < 0 THEN -1 ELSE 1
    IN  [n |-> (s * n) \div g, d |-> (s * d) \div g]

Int2Num(k) == [n |-> k, d |-> 1]

Add(a, b) == R(a.n * b.d + b.n * a.d, a.d * b.d)

Sub(a, b) == R(a.n * b.d - b.n * a.d, a.d * b.d)

\* a / b for b # 0; every divisor the source forms is positive.
Quot(a, b) == R(a.n * b.d, a.d * b.n)

Mul(a, b) == R(a.n * b.n, a.d * b.d)

Less(a, b) == a.n * b.d < b.n * a.d

Floor(a) == a.n \div a.d

Ceil(a) == -((-a.n) \div a.d)

---------------------------------------------------------------------------
(* lib/odds.ts *)

\* Mutant: the favorite branch uses the underdog formula.
oddsToImpliedProbabilityOneFormula(odds) ==
    IF odds < 0
    THEN LET absOdds == Abs(odds)
         IN  Quot(Int2Num(100), Int2Num(absOdds + 100))
    ELSE Quot(Int2Num(100), Int2Num(odds + 100))

oddsToImpliedProbability(odds) ==
    IF odds < 0
    THEN LET absOdds == Abs(odds)
         IN  Quot(Int2Num(absOdds), Int2Num(absOdds + 100))
    ELSE Quot(Int2Num(100), Int2Num(odds + 100))

---------------------------------------------------------------------------
(* A Map<number, V> in insertion order: a sequence of [key, value]. *)

MapHas(m, key) == \E i \in 1..Len(m) : m[i].key = key

MapGet(m, key) == m[CHOOSE i \in 1..Len(m) : m[i].key = key].value

MapSet(m, key, value) ==
    IF MapHas(m, key)
    THEN [i \in 1..Len(m) |->
            IF m[i].key = key THEN [key |-> key, value |-> value] ELSE m[i]]
    ELSE Append(m, [key |-> key, value |-> value])

\* Array.prototype.sort((a, b) => a.line - b.line): ascending and stable.
SortInsert(sorted, x) ==
    LET k == Cardinality({i \in 1..Len(sorted) : ~Less(x.line, sorted[i].line)})
    IN  SubSeq(sorted, 1, k) \o <<x>> \o SubSeq(sorted, k + 1, Len(sorted))

\* Mutant: the comparator is b.line - a.line, a descending sort.
RECURSIVE SortByLineDescending(_)
SortByLineDescending(s) ==
    IF Len(s) <= 1 THEN s
    ELSE LET sorted == SortByLineDescending(SubSeq(s, 1, Len(s) - 1))
             x == s[Len(s)]
             k == Cardinality({i \in 1..Len(sorted) : ~Less(sorted[i].line, x.line)})
         IN  SubSeq(sorted, 1, k) \o <<x>> \o SubSeq(sorted, k + 1, Len(sorted))

RECURSIVE SortByLine(_)
SortByLine(s) ==
    IF Len(s) <= 1 THEN s
    ELSE SortInsert(SortByLine(SubSeq(s, 1, Len(s) - 1)), s[Len(s)])

---------------------------------------------------------------------------
(* lib/distribution.ts *)

\* Step 1, one iteration of lines.forEach: the group of line.line gets the
\* implied probability of this line under its direction (a later line of the
\* same direction and value overwrites an earlier one).
GroupLine(lineGroups, line) ==
    LET impliedProb == oddsToImpliedProbability(line.odds)
        withKey == IF MapHas(lineGroups, line.line) THEN lineGroups
                   ELSE MapSet(lineGroups, line.line, <<>>)
        group == MapGet(withKey, line.line)
    IN  IF line.direction = "over"
        THEN MapSet(withKey, line.line, ("over" :> impliedProb) @@ group)
        ELSE MapSet(withKey, line.line, ("under" :> impliedProb) @@ group)

RECURSIVE GroupLines(_)
GroupLines(ls) ==
    IF ls = <<>> THEN <<>>
    ELSE GroupLine(GroupLines(SubSeq(ls, 1, Len(ls) - 1)), ls[Len(ls)])

\* Mutant: a pair is not rescaled, the Over side is taken as it is.
GroupOverProbabilityNoRescale(group) ==
    IF "over" \in DOMAIN group
    THEN group.over
    ELSE Sub(Int2Num(1), group.under)

\* Mutant: an Under line alone is taken as an over-probability.
GroupOverProbabilityUnderAsOver(group) ==
    IF "over" \in DOMAIN group /\ "under" \in DOMAIN group
    THEN LET totalProb == Add(group.over, group.under)
         IN  Quot(group.over, totalProb)
    ELSE IF "over" \in DOMAIN group
    THEN group.over
    ELSE group.under

\* Step 2, the over-probability of one group.
GroupOverProbability(group) ==
    IF "over" \in DOMAIN group /\ "under" \in DOMAIN group
    THEN LET totalProb == Add(group.over, group.under)
         IN  Quot(group.over, totalProb)
    ELSE IF "over" \in DOMAIN group
    THEN group.over
    ELSE Sub(Int2Num(1), group.under)

\* Step 2, lineGroups.forEach: one NormalizedLine per group that has data.
RECURSIVE NormalizeGroups(_)
NormalizeGroups(lineGroups) ==
    IF lineGroups = <<>> THEN <<>>
    ELSE LET n == Len(lineGroups)
             rest == NormalizeGroups(SubSeq(lineGroups, 1, n - 1))
             group == lineGroups[n].value
         IN  IF DOMAIN group = {} THEN rest
             ELSE Append(rest, [line |-> lineGroups[n].key,
                                overProbability |-> GroupOverProbability(group)])

\* Mutant: step 3 is left out, the groups stay in insertion order.
NormalizedLinesUnsorted(ls) == NormalizeGroups(GroupLines(ls))

\* Steps 1 to 3: the sorted array `normalized`.
NormalizedLines(ls) == SortByLine(NormalizeGroups(GroupLines(ls)))

\* Mutant: the bottom tail ends at the ceiling of the lowest line.
BottomRangeCeil(lowestLine) ==
    LET bottomValue == Ceil(lowestLine.line)
    IN  [label |-> "<=" \o ToString(bottomValue),
         probability |-> Sub(Int2Num(1), lowestLine.overProbability),
         max |-> bottomValue]

BottomRange(lowestLine) ==
    LET bottomValue == Floor(lowestLine.line)
    IN  [label |-> "<=" \o ToString(bottomValue),
         probability |-> Sub(Int2Num(1), lowestLine.overProbability),
         max |-> bottomValue]

\* Mutant: an inverted range (lo > hi) is clamped to the single value lo.
MiddleRangeClamped(current, next) ==
    LET probability == Sub(current.overProbability, next.overProbability)
        currentValue == Ceil(current.line)
        nextValue == Floor(next.line)
    IN  IF currentValue >= nextValue
        THEN [label |-> ToString(currentValue),
              probability |-> probability,
              min |-> currentValue,
              max |-> currentValue]
        ELSE [label |-> ToString(currentValue) \o "-" \o ToString(nextValue),
              probability |-> probability,
              min |-> currentValue,
              max |-> nextValue]

\* Mutant: a negative slice is raised to 0.
MiddleRangeNonNegative(current, next) ==
    LET difference == Sub(current.overProbability, next.overProbability)
        probability == IF Less(difference, Int2Num(0)) THEN Int2Num(0) ELSE difference
        currentValue == Ceil(current.line)
        nextValue == Floor(next.line)
    IN  IF currentValue = nextValue
        THEN [label |-> ToString(currentValue),
              probability |-> probability,
              min |-> currentValue,
              max |-> currentValue]
        ELSE [label |-> ToString(currentValue) \o "-" \o ToString(nextValue),
              probability |-> probability,
              min |-> currentValue,
              max |-> nextValue]

MiddleRange(current, next) ==
    LET probability == Sub(current.overProbability, next.overProbability)
        currentValue == Ceil(current.line)
        nextValue == Floor(next.line)
    IN  IF currentValue = nextValue
        THEN [label |-> ToString(currentValue),
              probability |-> probability,
              min |-> currentValue,
              max |-> currentValue]
        ELSE [label |-> ToString(currentValue) \o "-" \o ToString(nextValue),
              probability |-> probability,
              min |-> currentValue,
              max |-> nextValue]

\* Mutant: the top tail takes the under-probability of the highest line.
TopRangeUnderProbability(highestLine) ==
    LET topValue == Ceil(highestLine.line)
    IN  [label |-> ">=" \o ToString(topValue),
         probability |-> Sub(Int2Num(1), highestLine.overProbability),
         min |-> topValue]

TopRange(highestLine) ==
    LET topValue == Ceil(highestLine.line)
    IN  [label |-> ">=" \o ToString(topValue),
         probability |-> highestLine.overProbability,
         min |-> topValue]

RangesOf(norm) ==
    <<BottomRange(norm[1])>>
    \o [i \in 1..(Len(norm) - 1) |-> MiddleRange(norm[i], norm[i + 1])]
    \o <<TopRange(norm[Len(norm)])>>

\* Mutant: a single line is treated like no line.
calculateNeedsTwoLines(ls) ==
    IF Len(ls) <= 1 THEN <<>> ELSE RangesOf(NormalizedLines(ls))

calculateProbabilityDistribution(ls) ==
    IF Len(ls) = 0 THEN <<>> ELSE RangesOf(NormalizedLines(ls))

---------------------------------------------------------------------------
(* lib/validation.ts *)

\* lines.map: every line on its own, an Under line as 1 - impliedProb.
ValidationNormalized(ls) ==
    [index \in 1..Len(ls) |->
        LET impliedProb == oddsToImpliedProbability(ls[index].odds)
        IN  [line |-> ls[index].line,
             overProbability |-> IF ls[index].direction = "under"
                                 THEN Sub(Int2Num(1), impliedProb)
                                 ELSE impliedProb,
             originalIndex |-> index - 1]]

\* The message of an issue is kept as the values its template interpolates,
\* before toFixed rounds them for display.
\* Mutant: the comparison is <=, equal probabilities are reported too.
ContradictoryIssueNonStrict(current, next) ==
    IF current.line = next.line THEN <<>>
    ELSE IF ~Less(next.overProbability, current.overProbability)
    THEN <<[type |-> "contradictory_probabilities",
            message |-> <<current.line, Mul(current.overProbability, Int2Num(100)),
                          next.line, Mul(next.overProbability, Int2Num(100))>>,
            severity |-> "error"]>>
    ELSE <<>>

\* Mutant: the comparison is reversed, a falling probability is reported.
ContradictoryIssueReversed(current, next) ==
    IF current.line = next.line THEN <<>>
    ELSE IF Less(next.overProbability, current.overProbability)
    THEN <<[type |-> "contradictory_probabilities",
            message |-> <<current.line, Mul(current.overProbability, Int2Num(100)),
                          next.line, Mul(next.overProbability, Int2Num(100))>>,
            severity |-> "error"]>>
    ELSE <<>>

ContradictoryIssue(current, next) ==
    IF current.line = next.line THEN <<>>
    ELSE IF Less(current.overProbability, next.overProbability)
    THEN <<[type |-> "contradictory_probabilities",
            message |-> <<current.line, Mul(current.overProbability, Int2Num(100)),
                          next.line, Mul(next.overProbability, Int2Num(100))>>,
            severity |-> "error"]>>
    ELSE <<>>

\* Mutant: the gap > 0 condition is missing, as in the earlier version of
\* the file, so a same-line pair is reported as close.
CloseLinesIssueNoSameLineSkip(current, next) ==
    LET gap == Sub(next.line, current.line)
    IN  IF Less(gap, Int2Num(1))
        THEN <<[type |-> "contradictory_probabilities",
                message |-> <<current.line, next.line, gap>>,
                severity |-> "warning"]>>
        ELSE <<>>

CloseLinesIssue(current, next) ==
    LET gap == Sub(next.line, current.line)
    IN  IF Less(Int2Num(0), gap) /\ Less(gap, Int2Num(1))
        THEN <<[type |-> "contradictory_probabilities",
                message |-> <<current.line, next.line, gap>>,
                severity |-> "warning"]>>
        ELSE <<>>

\* Mutant: entries of one line value are not skipped.
NegativeProbabilityIssueNoSameLineSkip(current, next) ==
    LET probability == Sub(current.overProbability, next.overProbability)
    IN  IF Less(probability, Int2Num(0))
        THEN <<[type |-> "negative_probability",
                message |-> <<current.line, next.line>>,
                severity |-> "error"]>>
        ELSE <<>>

NegativeProbabilityIssue(current, next) ==
    IF current.line = next.line THEN <<>>
    ELSE LET probability == Sub(current.overProbability, next.overProbability)
         IN  IF Less(probability, Int2Num(0))
             THEN <<[type |-> "negative_probability",
                     message |-> <<current.line, next.line>>,
                     severity |-> "error"]>>
             ELSE <<>>

\* issues.push in loop order: the pushed issues of each iteration, in sequence.
RECURSIVE Pushed(_)
Pushed(perIteration) ==
    IF perIteration = <<>> THEN <<>>
    ELSE Pushed(SubSeq(perIteration, 1, Len(perIteration) - 1))
         \o perIteration[Len(perIteration)]

\* for (let i = 0; i < normalized.length - 1; i++), one operator per loop.
ContradictoryIssues(norm) ==
    Pushed([i \in 1..(Len(norm) - 1) |-> ContradictoryIssue(norm[i], norm[i + 1])])

CloseLinesIssues(norm) ==
    Pushed([i \in 1..(Len(norm) - 1) |-> CloseLinesIssue(norm[i], norm[i + 1])])

NegativeProbabilityIssues(norm) ==
    Pushed([i \in 1..(Len(norm) - 1) |-> NegativeProbabilityIssue(norm[i], norm[i + 1])])

\* lines.forEach of the vig check: the group keeps the Line of each direction.
PairGroupLine(lineGroups, line) ==
    LET withKey == IF MapHas(lineGroups, line.line) THEN lineGroups
                   ELSE MapSet(lineGroups, line.line, <<>>)
        group == MapGet(withKey, line.line)
    IN  IF line.direction = "over"
        THEN MapSet(withKey, line.line, ("over" :> line) @@ group)
        ELSE MapSet(withKey, line.line, ("under" :> line) @@ group)

RECURSIVE PairGroupLines(_)
PairGroupLines(ls) ==
    IF ls = <<>> THEN <<>>
    ELSE PairGroupLine(PairGroupLines(SubSeq(ls, 1, Len(ls) - 1)), ls[Len(ls)])

\* Mutant: the vig test is totalProb >= 1.0, a fair pair counts as vig.
MarketIssueVigOnTie(entry) ==
    LET group == entry.value
        lineValue == entry.key
    IN  IF "over" \in DOMAIN group /\ "under" \in DOMAIN group
        THEN LET overProb == oddsToImpliedProbability(group.over.odds)
                 underProb == oddsToImpliedProbability(group.under.odds)
                 totalProb == Add(overProb, underProb)
             IN  IF ~Less(totalProb, Int2Num(1))
                 THEN LET vig == Mul(Sub(totalProb, Int2Num(1)), Int2Num(100))
                      IN  <<[type |-> "vig",
                             message |-> <<lineValue, vig,
                                           Mul(overProb, Int2Num(100)),
                                           Mul(underProb, Int2Num(100)),
                                           Mul(totalProb, Int2Num(100))>>,
                             severity |-> "info"]>>
                 ELSE IF Less(totalProb, Int2Num(1))
                 THEN LET arbitrageMargin ==
                              Mul(Sub(Int2Num(1), totalProb), Int2Num(100))
                      IN  <<[type |-> "arbitrage",
                             message |-> <<lineValue, Mul(totalProb, Int2Num(100)),
                                           arbitrageMargin>>,
                             severity |-> "info"]>>
                 ELSE <<>>
        ELSE <<>>

\* Mutant: the vig is taken from totalProb, without subtracting 1.0.
MarketIssueVigIsTotal(entry) ==
    LET group == entry.value
        lineValue == entry.key
    IN  IF "over" \in DOMAIN group /\ "under" \in DOMAIN group
        THEN LET overProb == oddsToImpliedProbability(group.over.odds)
                 underProb == oddsToImpliedProbability(group.under.odds)
                 totalProb == Add(overProb, underProb)
             IN  IF Less(Int2Num(1), totalProb)
                 THEN LET vig == Mul(totalProb, Int2Num(100))
                      IN  <<[type |-> "vig",
                             message |-> <<lineValue, vig,
                                           Mul(overProb, Int2Num(100)),
                                           Mul(underProb, Int2Num(100)),
                                           Mul(totalProb, Int2Num(100))>>,
                             severity |-> "info"]>>
                 ELSE IF Less(totalProb, Int2Num(1))
                 THEN LET arbitrageMargin ==
                              Mul(Sub(Int2Num(1), totalProb), Int2Num(100))
                      IN  <<[type |-> "arbitrage",
                             message |-> <<lineValue, Mul(totalProb, Int2Num(100)),
                                           arbitrageMargin>>,
                             severity |-> "info"]>>
                 ELSE <<>>
        ELSE <<>>

MarketIssue(entry) ==
    LET group == entry.value
        lineValue == entry.key
    IN  IF "over" \in DOMAIN group /\ "under" \in DOMAIN group
        THEN LET overProb == oddsToImpliedProbability(group.over.odds)
                 underProb == oddsToImpliedProbability(group.under.odds)
                 totalProb == Add(overProb, underProb)
             IN  IF Less(Int2Num(1), totalProb)
                 THEN LET vig == Mul(Sub(totalProb, Int2Num(1)), Int2Num(100))
                      IN  <<[type |-> "vig",
                             message |-> <<lineValue, vig,
                                           Mul(overProb, Int2Num(100)),
                                           Mul(underProb, Int2Num(100)),
                                           Mul(totalProb, Int2Num(100))>>,
                             severity |-> "info"]>>
                 ELSE IF Less(totalProb, Int2Num(1))
                 THEN LET arbitrageMargin ==
                              Mul(Sub(Int2Num(1), totalProb), Int2Num(100))
                      IN  <<[type |-> "arbitrage",
                             message |-> <<lineValue, Mul(totalProb, Int2Num(100)),
                                           arbitrageMargin>>,
                             severity |-> "info"]>>
                 ELSE <<>>
        ELSE <<>>

MarketIssues(lineGroups) ==
    Pushed([i \in 1..Len(lineGroups) |-> MarketIssue(lineGroups[i])])

\* Mutant: the result is valid only when there is no issue at all.
ValidationResultNoIssues(issues) ==
    [isValid |-> Len(issues) = 0, issues |-> issues]

\* return { isValid: issues.filter(i => i.severity === 'error').length === 0, issues }
ValidationResult(issues) ==
    [isValid |-> Cardinality({i \in 1..Len(issues) : issues[i].severity = "error"}) = 0,
     issues |-> issues]

\* Mutant: the empty line set is reported as invalid.
validateLinesRejectsEmpty(ls) ==
    IF Len(ls) = 0 THEN [isValid |-> FALSE, issues |-> <<>>]
    ELSE LET norm == SortByLine(ValidationNormalized(ls))
         IN  ValidationResult(ContradictoryIssues(norm)
                              \o CloseLinesIssues(norm)
                              \o NegativeProbabilityIssues(norm)
                              \o MarketIssues(PairGroupLines(ls)))

validateLines(ls) ==
    IF Len(ls) = 0 THEN [isValid |-> TRUE, issues |-> <<>>]
    ELSE LET norm == SortByLine(ValidationNormalized(ls))
             issues == ContradictoryIssues(norm)
                       \o CloseLinesIssues(norm)
                       \o NegativeProbabilityIssues(norm)
                       \o MarketIssues(PairGroupLines(ls))
         IN  ValidationResult(issues)

---------------------------------------------------------------------------
(* The arrays of a call, by name: the caller's `lines` and the local        *)
(* `normalized`.  Array.prototype.sort sorts its receiver in place; forEach *)
(* and map only read theirs.                                                *)

SortInPlace(arrays, name) == [arrays EXCEPT ![name] = SortByLine(@)]

\* Mutant: step 3 sorts the argument, lines.sort(...).
ArraysAfterCalculateSortsLines(ls) ==
    IF Len(ls) = 0 THEN [lines |-> ls, normalized |-> <<>>]
    ELSE SortInPlace([lines |-> ls, normalized |-> NormalizeGroups(GroupLines(ls))],
                     "lines")

\* calculateProbabilityDistribution: normalized.sort(...) after the pushes.
ArraysAfterCalculate(ls) ==
    IF Len(ls) = 0 THEN [lines |-> ls, normalized |-> <<>>]
    ELSE SortInPlace([lines |-> ls, normalized |-> NormalizeGroups(GroupLines(ls))],
                     "normalized")

\* validateLines: normalized = lines.map(...), then normalized.sort(...).
ArraysAfterValidate(ls) ==
    IF Len(ls) = 0 THEN [lines |-> ls, normalized |-> <<>>]
    ELSE SortInPlace([lines |-> ls, normalized |-> ValidationNormalized(ls)],
                     "normalized")

---------------------------------------------------------------------------
(* Inputs. *)

Over(line, odds) == [direction |-> "over", line |-> line, odds |-> odds]

Under(line, odds) == [direction |-> "under", line |-> line, odds |-> odds]

\* lib/examples.ts
EXAMPLE_SCENARIOS ==
    [ brady_basic |-> <<Over(R(57, 2), -110), Over(R(59, 2), 150)>>,
      gap         |-> <<Over(R(51, 2), -110), Over(R(55, 2), 150)>>,
      mixed       |-> <<Over(R(97, 2), 110), Under(R(99, 2), -130)>>,
      granular    |-> <<Over(R(55, 2), -150), Over(R(57, 2), -110),
                        Over(R(59, 2), 150), Over(R(61, 2), 220)>>,
      wide_spread |-> <<Over(R(91, 2), -200), Over(R(101, 2), 300)>> ]

\* Line sets the specification works through (its section 8), and the second
\* one with the odds of its two lines exchanged.
SPEC_SCENARIOS ==
    [ vig_detection          |-> <<Over(R(30, 1), -120), Under(R(30, 1), -120)>>,
      monotonicity_violation |-> <<Over(R(101, 2), 200), Over(R(99, 2), -300)>>,
      monotonicity_exchanged |-> <<Over(R(101, 2), -300), Over(R(99, 2), 200)>> ]

\* Thresholds of the drawn inputs: an integer (28), a quarter (28.25) and
\* two half-integers (28.5, 29.5).  They lie less than 1 apart, exactly 1
\* apart (28.5, 29.5) and more than 1 apart (28, 29.5); the example
\* scenarios add half-integers 2 and 5 apart.
ThresholdValues == {R(28, 1), R(113, 4), R(57, 2), R(59, 2)}

OddsValues == {-150, 150}

LineValues == [direction : {"over", "under"}, line : ThresholdValues, odds : OddsValues]

Inputs ==
    UNION {[1..n -> LineValues] : n \in 0..MaxLines}
    \cup {EXAMPLE_SCENARIOS[id] : id \in DOMAIN EXAMPLE_SCENARIOS}
    \cup {SPEC_SCENARIOS[id] : id \in DOMAIN SPEC_SCENARIOS}

\* The inputs of the order properties, which run the functions on every
\* permutation of the input: all sequences over the non-integer thresholds.
OrderLineValues ==
    {l \in LineValues : l.line \in {R(113, 4), R(57, 2), R(59, 2)}}

OrderInputs ==
    UNION {[1..n -> OrderLineValues] : n \in 0..MaxLines}
    \cup {EXAMPLE_SCENARIOS[id] : id \in DOMAIN EXAMPLE_SCENARIOS}

OddsDomain == (-MaxOdds)..MaxOdds

\* The inputs of the equal-odds properties: an Over and an Under line at one
\* threshold with the same nonzero odds, in either order.
EqualOddsPairs ==
    {<<Over(t, odds), Under(t, odds)>> :
        t \in {R(57, 2), R(30, 1)}, odds \in OddsDomain \ {0}}
    \cup {<<Under(t, odds), Over(t, odds)>> :
        t \in {R(57, 2), R(30, 1)}, odds \in OddsDomain \ {0}}

---------------------------------------------------------------------------
(* app/page.tsx: the form.  The text of an input field is a sequence of    *)
(* one-character strings.  selectedExample and showManualEntry are display *)
(* state that no handler reads; they are left out.                         *)

\* useState("over"), useState(""), useState(""), useState("")
InitialForm ==
    [direction |-> "over", lineValue |-> <<>>, odds |-> <<>>, formError |-> <<>>]

NaN == [nan |-> TRUE]

Number(value) == [nan |-> FALSE, value |-> value]

IsDigit(c) == c \in {"0", "1", "2", "3", "4", "5", "6", "7", "8", "9"}

DigitValue(c) == CHOOSE k \in 0..9 : ToString(k) = c

\* The longest prefix of digits.
RECURSIVE DigitsPrefix(_)
DigitsPrefix(text) ==
    IF text = <<>> \/ ~IsDigit(Head(text)) THEN <<>>
    ELSE <<Head(text)>> \o DigitsPrefix(Tail(text))

RECURSIVE DigitsValue(_)
DigitsValue(digits) ==
    IF digits = <<>> THEN 0
    ELSE 10 * DigitsValue(SubSeq(digits, 1, Len(digits) - 1))
         + DigitValue(digits[Len(digits)])

Sign(text) == IF text # <<>> /\ Head(text) = "-" THEN -1 ELSE 1

Unsigned(text) ==
    IF text # <<>> /\ Head(text) \in {"-", "+"} THEN Tail(text) ELSE text

RECURSIVE PowerOfTen(_)
PowerOfTen(k) == IF k = 0 THEN 1 ELSE 10 * PowerOfTen(k - 1)

\* parseInt: an optional sign and the digits that follow; what comes after
\* the digits is ignored; NaN without a digit.  (Leading blanks and radix
\* prefixes do not occur in the texts drawn.)
parseInt(text) ==
    LET digits == DigitsPrefix(Unsigned(text))
    IN  IF digits = <<>> THEN NaN
        ELSE Number(Sign(text) * DigitsValue(digits))

\* parseFloat: an optional sign, digits, and a point with digits; what
\* comes after is ignored; NaN without a digit.  (Exponents do not occur in
\* the texts drawn.)
parseFloat(text) ==
    LET unsigned == Unsigned(text)
        whole == DigitsPrefix(unsigned)
        rest == SubSeq(unsigned, Len(whole) + 1, Len(unsigned))
        fraction == IF rest # <<>> /\ Head(rest) = "."
                    THEN DigitsPrefix(Tail(rest)) ELSE <<>>
        scale == PowerOfTen(Len(fraction))
    IN  IF whole = <<>> /\ fraction = <<>> THEN NaN
        ELSE Number(R(Sign(text) * (DigitsValue(whole) * scale + DigitsValue(fraction)),
                      scale))

\* Mutant: the duplicate check is left out.
AddLineErrorNoDuplicateCheck(ls, f) ==
    LET parsedLine == parseFloat(f.lineValue)
        parsedOdds == parseInt(f.odds)
    IN  IF f.lineValue = <<>> \/ f.odds = <<>>
        THEN <<"Please enter both line and odds">>
        ELSE IF parsedLine.nan
        THEN <<"Line must be a valid number (e.g., 28.5)">>
        ELSE IF parsedOdds.nan
        THEN <<"Odds must be a valid number (e.g., -110 or +150)">>
        ELSE IF parsedOdds.value = 0
        THEN <<"Odds cannot be 0">>
        ELSE <<>>

\* handleAddLine, its validation: the formError it sets, <<>> when the line
\* is accepted.
AddLineError(ls, f) ==
    LET parsedLine == parseFloat(f.lineValue)
        parsedOdds == parseInt(f.odds)
    IN  IF f.lineValue = <<>> \/ f.odds = <<>>
        THEN <<"Please enter both line and odds">>
        ELSE IF parsedLine.nan
        THEN <<"Line must be a valid number (e.g., 28.5)">>
        ELSE IF parsedOdds.nan
        THEN <<"Odds must be a valid number (e.g., -110 or +150)">>
        ELSE IF parsedOdds.value = 0
        THEN <<"Odds cannot be 0">>
        ELSE IF \E i \in 1..Len(ls) :
                    ls[i].line = parsedLine.value /\ ls[i].direction = f.direction
        THEN <<"A ", f.direction, parsedLine.value, " line already exists.">>
        ELSE <<>>

---------------------------------------------------------------------------
(* app/page.tsx and lib/validation.ts: the Market Efficiency card. *)

\* lines.forEach of findSameLinePairs: the directions seen per line value.
RECURSIVE DirectionGroups(_)
DirectionGroups(ls) ==
    IF ls = <<>> THEN <<>>
    ELSE LET line == ls[Len(ls)]
             lineGroups == DirectionGroups(SubSeq(ls, 1, Len(ls) - 1))
             withKey == IF MapHas(lineGroups, line.line) THEN lineGroups
                        ELSE MapSet(lineGroups, line.line, {})
         IN  MapSet(withKey, line.line,
                    MapGet(withKey, line.line) \cup {line.direction})

findSameLinePairs(ls) ==
    LET both == SelectSeq(DirectionGroups(ls),
                          LAMBDA entry : {"over", "under"} \subseteq entry.value)
        sorted == SortByLine([i \in 1..Len(both) |-> [line |-> both[i].key]])
    IN  [i \in 1..Len(sorted) |-> sorted[i].line]

\* lines.find(l => l.line === lineValue && l.direction === direction): the
\* first such line in a one-element sequence, <<>> for undefined.
FindLine(ls, lineValue, direction) ==
    LET found == {i \in 1..Len(ls) :
                     ls[i].line = lineValue /\ ls[i].direction = direction}
    IN  IF found = {} THEN <<>>
        ELSE <<ls[CHOOSE i \in found : \A j \in found : i <= j]>>

\* getMarketEfficiencyData: <<>> for null, else the data in a one-element
\* sequence.
getMarketEfficiencyData(ls, lineValue) ==
    LET overLine == FindLine(ls, lineValue, "over")
        underLine == FindLine(ls, lineValue, "under")
    IN  IF overLine = <<>> \/ underLine = <<>> THEN <<>>
        ELSE LET overProb == oddsToImpliedProbability(overLine[1].odds)
                 underProb == oddsToImpliedProbability(underLine[1].odds)
                 totalProb == Add(overProb, underProb)
                 difference == Sub(totalProb, Int2Num(1))
             IN  <<[overProb |-> overProb,
                    underProb |-> underProb,
                    overOdds |-> overLine[1].odds,
                    underOdds |-> underLine[1].odds,
                    vigOrArbitrage |-> IF Less(Int2Num(1), totalProb)
                                       THEN "vig" ELSE "arbitrage",
                    margin |-> IF Less(difference, Int2Num(0))
                               THEN Sub(Int2Num(0), difference) ELSE difference]>>

\* sameLinePairs.map(...) of the card: one entry per pair, the pairs whose
\* data is null are not rendered.
MarketEfficiencyCard(ls) ==
    LET sameLinePairs == findSameLinePairs(ls)
        entries == [i \in 1..Len(sameLinePairs) |->
                       [lineValue |-> sameLinePairs[i],
                        data |-> getMarketEfficiencyData(ls, sameLinePairs[i])]]
        rendered == SelectSeq(entries, LAMBDA entry : entry.data # <<>>)
    IN  [i \in 1..Len(rendered) |->
            [lineValue |-> rendered[i].lineValue, data |-> rendered[i].data[1]]]

---------------------------------------------------------------------------
(* The calls. *)

Init ==
    /\ lines \in Inputs
    /\ implied = <<>>
    /\ normalized = <<>>
    /\ ranges = <<>>
    /\ validation = [isValid |-> TRUE, issues |-> <<>>]
    /\ returned = {}
    /\ form = InitialForm
    /\ marketEfficiency = <<>>

Calculate ==
    /\ "calculateProbabilityDistribution" \notin returned
    /\ normalized' = IF Len(lines) = 0 THEN <<>> ELSE NormalizedLines(lines)
    /\ ranges' = calculateProbabilityDistribution(lines)
    /\ returned' = returned \cup {"calculateProbabilityDistribution"}
    /\ lines' = ArraysAfterCalculate(lines).lines
    /\ UNCHANGED <<implied, validation, form, marketEfficiency>>

Validate ==
    /\ "validateLines" \notin returned
    /\ validation' = validateLines(lines)
    /\ returned' = returned \cup {"validateLines"}
    /\ lines' = ArraysAfterValidate(lines).lines
    /\ UNCHANGED <<implied, normalized, ranges, form, marketEfficiency>>

Next == Calculate \/ Validate

Spec == Init /\ [][Next]_vars

OrderInit ==
    /\ lines \in OrderInputs
    /\ implied = <<>>
    /\ normalized = <<>>
    /\ ranges = <<>>
    /\ validation = [isValid |-> TRUE, issues |-> <<>>]
    /\ returned = {}
    /\ form = InitialForm
    /\ marketEfficiency = <<>>

OrderSpec == OrderInit /\ [][Next]_vars

PairInit ==
    /\ lines \in EqualOddsPairs
    /\ implied = <<>>
    /\ normalized = <<>>
    /\ ranges = <<>>
    /\ validation = [isValid |-> TRUE, issues |-> <<>>]
    /\ returned = {}
    /\ form = InitialForm
    /\ marketEfficiency = <<>>

PairSpec == PairInit /\ [][Next]_vars

\* A direct call of oddsToImpliedProbability.  The function has no throw
\* and forms no zero divisor, so every call returns a number.
OddsInit ==
    /\ lines = <<>>
    /\ implied = <<>>
    /\ normalized = <<>>
    /\ ranges = <<>>
    /\ validation = [isValid |-> TRUE, issues |-> <<>>]
    /\ returned = {}
    /\ form = InitialForm
    /\ marketEfficiency = <<>>

Convert ==
    /\ "oddsToImpliedProbability" \notin returned
    /\ \E odds \in OddsDomain :
          implied' = (odds :> [outcome |-> "returns",
                               value |-> oddsToImpliedProbability(odds)])
    /\ returned' = returned \cup {"oddsToImpliedProbability"}
    /\ UNCHANGED <<lines, normalized, ranges, validation, form, marketEfficiency>>

OddsNext == Convert

OddsSpec == OddsInit /\ [][OddsNext]_vars

---------------------------------------------------------------------------
(* app/page.tsx: the page.  Every handler that sets state is followed by   *)
(* the render of the component, which computes distribution, validation    *)
(* and the card from the new lines.                                        *)

\* The texts typed into the line field and into the odds field.
LineTexts == {<<>>, <<"x">>, <<"2", "8", ".", "5">>, <<"2", "9", ".", "5">>}

OddsTexts == {<<>>, <<"x">>, <<"0">>, <<"-", "1", "5", "0">>, <<"1", "5", "0">>}

\* The examples offered by the dropdown that the model loads.
ExampleIds == {"brady_basic", "mixed", "granular"}

\* useState<Line[]>([...])
InitialLines == <<Over(R(57, 2), -110), Over(R(59, 2), 150)>>

RenderedDistribution(ls) ==
    IF Len(ls) >= 1 THEN calculateProbabilityDistribution(ls) ELSE <<>>

RenderedNormalized(ls) == IF Len(ls) >= 1 THEN NormalizedLines(ls) ELSE <<>>

RenderedCalls(ls) ==
    IF Len(ls) >= 1 THEN {"calculateProbabilityDistribution", "validateLines"}
    ELSE {"validateLines"}

\* The render on the lines `ls`.
Render(ls) ==
    /\ ranges' = RenderedDistribution(ls)
    /\ normalized' = RenderedNormalized(ls)
    /\ validation' = validateLines(ls)
    /\ marketEfficiency' = MarketEfficiencyCard(ls)
    /\ returned' = RenderedCalls(ls)

PageInit ==
    /\ lines = InitialLines
    /\ form = InitialForm
    /\ implied = <<>>
    /\ ranges = RenderedDistribution(InitialLines)
    /\ normalized = RenderedNormalized(InitialLines)
    /\ validation = validateLines(InitialLines)
    /\ marketEfficiency = MarketEfficiencyCard(InitialLines)
    /\ returned = RenderedCalls(InitialLines)

setDirection ==
    /\ \E val \in {"over", "under"} : form' = [form EXCEPT !.direction = val]
    /\ lines' = lines
    /\ Render(lines)
    /\ UNCHANGED implied

\* onChange of the line field: setLineValue(e.target.value); setFormError("")
setLineValue ==
    /\ \E value \in LineTexts :
          form' = [form EXCEPT !.lineValue = value, !.formError = <<>>]
    /\ lines' = lines
    /\ Render(lines)
    /\ UNCHANGED implied

\* onChange of the odds field: setOdds(e.target.value); setFormError("")
setOdds ==
    /\ \E value \in OddsTexts :
          form' = [form EXCEPT !.odds = value, !.formError = <<>>]
    /\ lines' = lines
    /\ Render(lines)
    /\ UNCHANGED implied

\* The handler runs whatever the state of its button.  A line is accepted
\* while the page holds fewer than MaxPageLines lines.
handleAddLine ==
    LET error == AddLineError(lines, form)
    IN  /\ error = <<>> => Len(lines) < MaxPageLines
        /\ IF error # <<>>
           THEN /\ form' = [form EXCEPT !.formError = error]
                /\ lines' = lines
           ELSE /\ form' = [form EXCEPT !.formError = <<>>,
                                        !.lineValue = <<>>,
                                        !.odds = <<>>]
                /\ lines' = lines \o <<[direction |-> form.direction,
                                        line |-> parseFloat(form.lineValue).value,
                                        odds |-> parseInt(form.odds).value]>>
        /\ Render(lines')
        /\ UNCHANGED implied

\* lines.filter((_, i) => i !== index)
handleRemoveLine ==
    /\ \E index \in 0..(Len(lines) - 1) :
          lines' = SubSeq(lines, 1, index) \o SubSeq(lines, index + 2, Len(lines))
    /\ Render(lines')
    /\ UNCHANGED <<implied, form>>

loadExample(exampleLines) ==
    /\ lines' = exampleLines
    /\ form' = [form EXCEPT !.lineValue = <<>>, !.odds = <<>>]

handleExampleChange ==
    /\ \E exampleId \in ExampleIds :
          IF exampleId \in DOMAIN EXAMPLE_SCENARIOS
          THEN loadExample(EXAMPLE_SCENARIOS[exampleId])
          ELSE UNCHANGED <<lines, form>>
    /\ Render(lines')
    /\ UNCHANGED implied

PageNext ==
    \/ setDirection
    \/ setLineValue
    \/ setOdds
    \/ handleAddLine
    \/ handleRemoveLine
    \/ handleExampleChange

PageSpec == PageInit /\ [][PageNext]_vars

---------------------------------------------------------------------------
(* Vocabulary of the properties. *)

CalculateReturned == "calculateProbabilityDistribution" \in returned

ValidateReturned == "validateLines" \in returned

Zero == Int2Num(0)

One == Int2Num(1)

\* The over-probabilities fall strictly as the threshold rises.
StrictlyDecreasing(norm) ==
    \A i \in 1..(Len(norm) - 1) :
        Less(norm[i + 1].overProbability, norm[i].overProbability)

\* Integer k belongs to range r; an absent min or max is an open tail.
Covers(r, k) ==
    /\ "min" \in DOMAIN r => r.min <= k
    /\ "max" \in DOMAIN r => k <= r.max

InteriorIndexes(rs) == 2..(Len(rs) - 1)

RECURSIVE SumOfProbabilities(_)
SumOfProbabilities(rs) ==
    IF rs = <<>> THEN Zero
    ELSE Add(SumOfProbabilities(SubSeq(rs, 1, Len(rs) - 1)), rs[Len(rs)].probability)

HasIssue(type, severity) ==
    \E i \in 1..Len(validation.issues) :
        /\ validation.issues[i].type = type
        /\ validation.issues[i].severity = severity

---------------------------------------------------------------------------
(* C1: for a non-empty line set with integer or .5 thresholds whose        *)
(* normalized over-probabilities strictly decrease, the returned ranges    *)
(* partition the integers: each range's max plus 1 is the next range's     *)
(* min, every interior range has min <= max, and every integer lies in     *)
(* exactly one range.  The code breaks this at an integer threshold t,     *)
(* where floor(t) = ceil(t) puts t in two ranges.                          *)

HalfOrIntegerThresholds == \A i \in 1..Len(lines) : lines[i].line.d \in {1, 2}

C1_RangesPartitionIntegers ==
    (/\ CalculateReturned
     /\ lines # <<>>
     /\ HalfOrIntegerThresholds
     /\ StrictlyDecreasing(normalized))
    => /\ \A i \in 1..(Len(ranges) - 1) : ranges[i].max + 1 = ranges[i + 1].min
       /\ \A i \in InteriorIndexes(ranges) : ranges[i].min <= ranges[i].max
       /\ \A k \in (ranges[1].max - 1)..(ranges[Len(ranges)].min + 1) :
            Cardinality({i \in 1..Len(ranges) : Covers(ranges[i], k)}) = 1

---------------------------------------------------------------------------
(* C2: for a non-empty line set with strictly decreasing normalized        *)
(* over-probabilities, the probabilities of the returned ranges sum to 1   *)
(* (in exact arithmetic).                                                  *)

C2_ProbabilitiesSumToOne ==
    (/\ CalculateReturned
     /\ lines # <<>>
     /\ StrictlyDecreasing(normalized))
    => SumOfProbabilities(ranges) = One

C2_Witness ==
    /\ CalculateReturned
    /\ Len(normalized) >= 2
    /\ StrictlyDecreasing(normalized)
    /\ \E i \in 1..Len(lines) : lines[i].direction = "under"
    /\ Len(ranges) = Len(normalized) + 1

---------------------------------------------------------------------------
(* C3: whenever calculateProbabilityDistribution returns an interior       *)
(* range with a negative probability, validateLines on the same lines      *)
(* reports a negative_probability error and isValid is false.  The code    *)
(* breaks this when a threshold has both an Over and an Under line: the    *)
(* engine slices from the no-vig probability of the pair, the validator    *)
(* from the last line of the pair.                                         *)

C3_NegativeSliceIsReported ==
    (/\ CalculateReturned
     /\ ValidateReturned
     /\ \E i \in InteriorIndexes(ranges) : Less(ranges[i].probability, Zero))
    => /\ HasIssue("negative_probability", "error")
       /\ validation.isValid = FALSE

---------------------------------------------------------------------------
(* C4: oddsToImpliedProbability(odds) is |odds| / (|odds| + 100) for       *)
(* negative odds and 100 / (odds + 100) for positive odds, and lies        *)
(* strictly between 0 and 1 for nonzero odds; -110, +150, -300, -200 and   *)
(* +200 give 0.5238, 0.40, 0.75, 0.6667 and 0.3333 within 1e-4.            *)

\* |value - tenThousandths / 10000| < 1 / 10000
Within1e4(value, tenThousandths) ==
    Abs(value.n * 10000 - tenThousandths * value.d) < value.d

C4_ImpliedProbabilityFormula ==
    \A odds \in DOMAIN implied :
        LET value == implied[odds].value
        IN  /\ implied[odds].outcome = "returns"
            /\ odds < 0 => value.n * ((-odds) + 100) = (-odds) * value.d
            /\ odds > 0 => value.n * (odds + 100) = 100 * value.d
            /\ odds # 0 => 0 < value.n /\ value.n < value.d
            /\ odds = -110 => Within1e4(value, 5238) /\ value.n * 210 = 110 * value.d
            /\ odds = 150 => value.n * 5 = 2 * value.d
            /\ odds = -300 => value.n * 4 = 3 * value.d
            /\ odds = -200 => Within1e4(value, 6667)
            /\ odds = 200 => Within1e4(value, 3333)

C4_Witness == DOMAIN implied = {-110}

---------------------------------------------------------------------------
(* C5: oddsToImpliedProbability fails explicitly for odds = 0 and returns  *)
(* no probability for it.  The code takes its else branch and returns      *)
(* 100 / (0 + 100) = 1.                                                    *)

C5_ZeroOddsFails ==
    0 \in DOMAIN implied => implied[0].outcome # "returns"

---------------------------------------------------------------------------
(* C6: the over-probability the engine uses for a threshold is P(over)     *)
(* when only an Over line exists there, 1 - P(under) when only an Under    *)
(* line exists, and P(over) / (P(over) + P(under)) when both exist, P      *)
(* being oddsToImpliedProbability of the line's odds.  When several lines  *)
(* share direction and threshold, the line meant is the last in input      *)
(* order.                                                                  *)

IndexesAt(direction, threshold) ==
    {i \in 1..Len(lines) : lines[i].direction = direction /\ lines[i].line = threshold}

Max(S) == CHOOSE x \in S : \A y \in S : y <= x

\* P of the line of this direction at this threshold.
P(direction, threshold) ==
    oddsToImpliedProbability(lines[Max(IndexesAt(direction, threshold))].odds)

ExpectedOverProbability(threshold) ==
    LET hasOver == IndexesAt("over", threshold) # {}
        hasUnder == IndexesAt("under", threshold) # {}
    IN  IF hasOver /\ hasUnder
        THEN Quot(P("over", threshold),
                  Add(P("over", threshold), P("under", threshold)))
        ELSE IF hasOver THEN P("over", threshold)
        ELSE Sub(One, P("under", threshold))

C6_OverProbabilityOfThreshold ==
    CalculateReturned =>
        \A k \in 1..Len(lines) :
            LET threshold == lines[k].line
                entries == {i \in 1..Len(normalized) : normalized[i].line = threshold}
            IN  /\ Cardinality(entries) = 1
                /\ \A i \in entries :
                     normalized[i].overProbability = ExpectedOverProbability(threshold)

\* One call with a pair at one threshold and an Under line alone at another.
C6_Witness ==
    /\ CalculateReturned
    /\ \E t \in ThresholdValues : IndexesAt("over", t) # {} /\ IndexesAt("under", t) # {}
    /\ \E t \in ThresholdValues : IndexesAt("over", t) = {} /\ IndexesAt("under", t) # {}
    /\ Len(normalized) = 2

---------------------------------------------------------------------------
(* C7: the engine returns the empty array exactly for the empty input; a   *)
(* non-empty input with k distinct thresholds yields exactly k + 1 ranges, *)
(* so a single line yields two ranges, the bottom tail and the top tail.   *)

DistinctThresholds == {lines[i].line : i \in 1..Len(lines)}

C7_RangeCount ==
    CalculateReturned =>
        /\ ranges = <<>> <=> lines = <<>>
        /\ lines # <<>> => Len(ranges) = Cardinality(DistinctThresholds) + 1
        /\ Len(lines) = 1 =>
             /\ Len(ranges) = 2
             /\ DOMAIN ranges[1] = {"label", "probability", "max"}
             /\ DOMAIN ranges[2] = {"label", "probability", "min"}

\* Three lines on two thresholds: fewer ranges than lines plus one.
C7_Witness ==
    /\ CalculateReturned
    /\ Len(lines) = 3
    /\ Cardinality(DistinctThresholds) = 2
    /\ Len(ranges) = 3

---------------------------------------------------------------------------
(* C8: for a non-empty input the first range is labelled '<=b' with        *)
(* max = b, no min and probability 1 - p_low, b the floor of the lowest    *)
(* threshold and p_low its over-probability; the last range is labelled    *)
(* '>=t' with min = t, no max and probability p_high, t the ceiling of     *)
(* the highest threshold and p_high its over-probability.                  *)

\* The integer part below and above a number, by their defining bounds.
IsFloor(b, x) == b * x.d <= x.n /\ x.n < (b + 1) * x.d

IsCeil(t, x) == (t - 1) * x.d < x.n /\ x.n <= t * x.d

LowestEntry ==
    CHOOSE i \in 1..Len(normalized) :
        \A j \in 1..Len(normalized) : ~Less(normalized[j].line, normalized[i].line)

HighestEntry ==
    CHOOSE i \in 1..Len(normalized) :
        \A j \in 1..Len(normalized) : ~Less(normalized[i].line, normalized[j].line)

C8_TailRanges ==
    (CalculateReturned /\ lines # <<>>) =>
        LET first == ranges[1]
            last == ranges[Len(ranges)]
            low == normalized[LowestEntry]
            high == normalized[HighestEntry]
        IN  /\ DOMAIN first = {"label", "probability", "max"}
            /\ IsFloor(first.max, low.line)
            /\ first.label = "<=" \o ToString(first.max)
            /\ Add(first.probability, low.overProbability) = One
            /\ DOMAIN last = {"label", "probability", "min"}
            /\ IsCeil(last.min, high.line)
            /\ last.label = ">=" \o ToString(last.min)
            /\ last.probability = high.overProbability

\* The input gives the highest threshold first, and neither is an integer.
C8_Witness ==
    /\ CalculateReturned
    /\ Len(lines) >= 2
    /\ Less(lines[2].line, lines[1].line)
    /\ ranges[1].max + 1 < ranges[Len(ranges)].min

---------------------------------------------------------------------------
(* C9: for each adjacent pair (cur, next) of the sorted distinct           *)
(* thresholds the engine emits one interior range with probability         *)
(* cur.overProbability - next.overProbability, min = lo = ceil(cur) and    *)
(* max = hi = floor(next), labelled 'lo' when lo = hi and 'lo-hi'          *)
(* otherwise; when lo > hi the range is emitted all the same, neither      *)
(* clamped nor skipped.                                                    *)

C9_InteriorRanges ==
    (CalculateReturned /\ lines # <<>>) =>
        /\ Len(ranges) = Len(normalized) + 1
        /\ \A i \in 1..(Len(normalized) - 1) :
             LET cur == normalized[i]
                 next == normalized[i + 1]
                 range == ranges[i + 1]
             IN  /\ Less(cur.line, next.line)
                 /\ DOMAIN range = {"label", "probability", "min", "max"}
                 /\ Add(range.probability, next.overProbability) = cur.overProbability
                 /\ IsCeil(range.min, cur.line)
                 /\ IsFloor(range.max, next.line)
                 /\ range.label = IF range.min = range.max
                                  THEN ToString(range.min)
                                  ELSE ToString(range.min) \o "-" \o ToString(range.max)

\* One call with an inverted interior range (lo > hi) and a single-value one.
C9_Witness ==
    /\ CalculateReturned
    /\ \E i \in InteriorIndexes(ranges) : ranges[i].min > ranges[i].max
    /\ \E i \in InteriorIndexes(ranges) : ranges[i].min = ranges[i].max

---------------------------------------------------------------------------
(* C10: the ranges come bottom tail first, interior slices in ascending    *)
(* threshold order, top tail last, whatever the order of the input: for a  *)
(* line set in which no two lines share both direction and threshold,      *)
(* every permutation of the input produces the same sequence of ranges.    *)

NoDuplicateLines ==
    \A i, j \in 1..Len(lines) :
        (lines[i].direction = lines[j].direction /\ lines[i].line = lines[j].line)
        => i = j

Permuted(ls, p) == [i \in 1..Len(ls) |-> ls[p[i]]]

\* The thresholds above which range i + 1 starts rise with i.
AscendingOrder ==
    /\ \A i \in 1..(Len(ranges) - 1) : "max" \in DOMAIN ranges[i]
    /\ \A i \in 2..Len(ranges) : "min" \in DOMAIN ranges[i]
    /\ \A i \in 1..(Len(ranges) - 1) :
         \E t \in DistinctThresholds :
            /\ IsFloor(ranges[i].max, t)
            /\ IsCeil(ranges[i + 1].min, t)
            /\ Cardinality({u \in DistinctThresholds : Less(u, t)}) = i - 1

C10_OrderIndependent ==
    (CalculateReturned /\ lines # <<>> /\ NoDuplicateLines) =>
        /\ "min" \notin DOMAIN ranges[1]
        /\ "max" \notin DOMAIN ranges[Len(ranges)]
        /\ AscendingOrder
        /\ \A p \in Permutations(1..Len(lines)) :
             calculateProbabilityDistribution(Permuted(lines, p)) = ranges

\* Three distinct thresholds given in an order that is not ascending.
C10_Witness ==
    /\ CalculateReturned
    /\ NoDuplicateLines
    /\ Len(lines) = 3
    /\ Cardinality(DistinctThresholds) = 3
    /\ Less(lines[3].line, lines[1].line)
    /\ Less(lines[1].line, lines[2].line)

---------------------------------------------------------------------------
(* Vocabulary of the validator's properties. *)

IssueIndexes(type, severity) ==
    {k \in 1..Len(validation.issues) :
        /\ validation.issues[k].type = type
        /\ validation.issues[k].severity = severity}

\* The over-probability of one line taken alone.
OverProbabilityOfLine(line) ==
    IF line.direction = "under"
    THEN Sub(One, oddsToImpliedProbability(line.odds))
    ELSE oddsToImpliedProbability(line.odds)

PairwiseDistinctThresholds == Cardinality(DistinctThresholds) = Len(lines)

\* The pairs of thresholds of the input that are adjacent in ascending order.
AdjacentThresholds ==
    {pair \in DistinctThresholds \X DistinctThresholds :
        /\ Less(pair[1], pair[2])
        /\ ~\E v \in DistinctThresholds : Less(pair[1], v) /\ Less(v, pair[2])}

---------------------------------------------------------------------------
(* C11: validateLines returns isValid = true exactly when none of the      *)
(* returned issues has severity 'error'; warnings and info issues never    *)
(* make isValid false.                                                     *)

C11_ValidIffNoError ==
    ValidateReturned =>
        (validation.isValid = TRUE
         <=> \A k \in 1..Len(validation.issues) :
                validation.issues[k].severity # "error")

\* A valid result that carries a warning and an info issue.
C11_Witness ==
    /\ ValidateReturned
    /\ validation.isValid = TRUE
    /\ \E k \in 1..Len(validation.issues) : validation.issues[k].severity = "warning"
    /\ \E k \in 1..Len(validation.issues) : validation.issues[k].severity = "info"

---------------------------------------------------------------------------
(* C12: for a line set with pairwise distinct thresholds, validateLines    *)
(* emits one error 'contradictory_probabilities' for exactly those pairs   *)
(* of thresholds adjacent in ascending order whose over-probability is     *)
(* strictly greater at the higher threshold; equal over-probabilities      *)
(* produce no issue.                                                       *)

LineAt(threshold) == lines[CHOOSE i \in 1..Len(lines) : lines[i].line = threshold]

RisingPairs ==
    {pair \in AdjacentThresholds :
        Less(OverProbabilityOfLine(LineAt(pair[1])),
             OverProbabilityOfLine(LineAt(pair[2])))}

C12_ContradictoryPairs ==
    (ValidateReturned /\ PairwiseDistinctThresholds) =>
        LET errors == IssueIndexes("contradictory_probabilities", "error")
        IN  /\ Cardinality(errors) = Cardinality(RisingPairs)
            /\ \A pair \in RisingPairs :
                 \E k \in errors :
                    /\ validation.issues[k].message[1] = pair[1]
                    /\ validation.issues[k].message[3] = pair[2]

\* Three thresholds: one adjacent pair rises, the other has equal
\* over-probabilities.
C12_Witness ==
    /\ ValidateReturned
    /\ PairwiseDistinctThresholds
    /\ Len(lines) = 3
    /\ Cardinality(RisingPairs) = 1
    /\ \E pair \in AdjacentThresholds :
         OverProbabilityOfLine(LineAt(pair[1])) = OverProbabilityOfLine(LineAt(pair[2]))
    /\ Cardinality(IssueIndexes("contradictory_probabilities", "error")) = 1

---------------------------------------------------------------------------
(* C13: validateLines emits one warning 'contradictory_probabilities' for  *)
(* exactly those adjacent entries of the threshold-sorted lines whose      *)
(* thresholds differ by more than 0 and less than 1.0; two lines at one    *)
(* threshold never produce it, and a gap of exactly 1.0 does not.  Entries *)
(* of one threshold are contiguous after sorting, so the adjacent entries  *)
(* with a positive gap are the adjacent distinct thresholds.               *)

ClosePairs ==
    {pair \in AdjacentThresholds : Less(Sub(pair[2], pair[1]), One)}

C13_CloseLineWarnings ==
    ValidateReturned =>
        LET warnings == IssueIndexes("contradictory_probabilities", "warning")
        IN  /\ Cardinality(warnings) = Cardinality(ClosePairs)
            /\ \A pair \in ClosePairs :
                 \E k \in warnings :
                    /\ validation.issues[k].message[1] = pair[1]
                    /\ validation.issues[k].message[2] = pair[2]

\* Two lines at one threshold and a third less than 1.0 away: one warning.
C13_Witness ==
    /\ ValidateReturned
    /\ Len(lines) = 3
    /\ Cardinality(DistinctThresholds) = 2
    /\ Cardinality(IssueIndexes("contradictory_probabilities", "warning")) = 1

---------------------------------------------------------------------------
(* C14: for every threshold with both an Over and an Under line, with      *)
(* total = P(over) + P(under) from the raw odds, validateLines emits       *)
(* exactly one 'vig' issue when total > 1, exactly one 'arbitrage' issue   *)
(* when total < 1 and none when total = 1; a threshold with one direction  *)
(* produces neither; every such issue has severity 'info', so one Over     *)
(* and one Under at the same threshold are always isValid.                 *)

MarketIssuesAt(type, threshold) ==
    {k \in 1..Len(validation.issues) :
        /\ validation.issues[k].type = type
        /\ validation.issues[k].message[1] = threshold}

Total(threshold) == Add(P("over", threshold), P("under", threshold))

HasBoth(threshold) ==
    IndexesAt("over", threshold) # {} /\ IndexesAt("under", threshold) # {}

C14_VigAndArbitrage ==
    ValidateReturned =>
        /\ \A t \in DistinctThresholds :
             LET vigs == Cardinality(MarketIssuesAt("vig", t))
                 arbitrages == Cardinality(MarketIssuesAt("arbitrage", t))
             IN  IF HasBoth(t)
                 THEN /\ vigs = IF Less(One, Total(t)) THEN 1 ELSE 0
                      /\ arbitrages = IF Less(Total(t), One) THEN 1 ELSE 0
                 ELSE vigs = 0 /\ arbitrages = 0
        /\ \A k \in 1..Len(validation.issues) :
             validation.issues[k].type \in {"vig", "arbitrage"} =>
                /\ validation.issues[k].severity = "info"
                /\ validation.issues[k].message[1] \in DistinctThresholds
        /\ (Len(lines) = 2 /\ Cardinality(DistinctThresholds) = 1
            /\ lines[1].direction # lines[2].direction)
           => validation.isValid = TRUE

\* A fair pair (total = 1) beside a single line: no vig, no arbitrage.
C14_Witness ==
    /\ ValidateReturned
    /\ Len(lines) = 3
    /\ \E t \in DistinctThresholds : HasBoth(t) /\ Total(t) = One
    /\ \E t \in DistinctThresholds : ~HasBoth(t)
    /\ \A k \in 1..Len(validation.issues) :
         validation.issues[k].type \notin {"vig", "arbitrage"}

---------------------------------------------------------------------------
(* C15: the result of validateLines depends only on the set of lines, not  *)
(* on their order: any two orderings give the same isValid and the same    *)
(* collection of issues (type and severity).  The code breaks this when    *)
(* two lines share a threshold: the stable sort keeps their input order    *)
(* and only the last of them is compared with the next threshold.          *)

IssueKinds ==
    {"negative_probability", "contradictory_probabilities", "total_probability",
     "vig", "arbitrage"} \X {"error", "warning", "info"}

CountOf(issues, kind) ==
    Cardinality({k \in 1..Len(issues) :
                    issues[k].type = kind[1] /\ issues[k].severity = kind[2]})

SameOutcome(a, b) ==
    /\ a.isValid = b.isValid
    /\ \A kind \in IssueKinds : CountOf(a.issues, kind) = CountOf(b.issues, kind)

C15_ValidationOrderIndependent ==
    ValidateReturned =>
        \A p \in Permutations(1..Len(lines)) :
            SameOutcome(validateLines(Permuted(lines, p)), validation)

---------------------------------------------------------------------------
(* C16: calculateProbabilityDistribution never fails for a non-empty line  *)
(* set with nonzero odds: the call returns its ranges also when the line   *)
(* set is inconsistent, and the interior range then carries the negative   *)
(* probability unchanged.                                                  *)

IsNumber(x) == DOMAIN x = {"n", "d"} /\ x.n \in Int /\ x.d \in Nat \ {0}

\* The call on the current lines yields a list of ranges, whatever the lines.
CalculateYieldsRanges ==
    LET result == calculateProbabilityDistribution(lines)
    IN  /\ DOMAIN result = 1..Len(result)
        /\ \A i \in 1..Len(result) : IsNumber(result[i].probability)
        /\ CalculateReturned => ranges = result

C16_ReturnsNegativeUnchanged ==
    /\ CalculateYieldsRanges
    /\ (CalculateReturned /\ lines # <<>>) =>
         /\ Len(ranges) = Len(normalized) + 1
         /\ \A i \in 1..(Len(normalized) - 1) :
              Less(normalized[i].overProbability, normalized[i + 1].overProbability)
              => /\ Less(ranges[i + 1].probability, Zero)
                 /\ Add(ranges[i + 1].probability, normalized[i + 1].overProbability)
                      = normalized[i].overProbability

\* A returned interior range with a negative probability.
C16_Witness ==
    /\ CalculateReturned
    /\ \A i \in 1..Len(lines) : lines[i].odds # 0
    /\ \E i \in InteriorIndexes(ranges) : Less(ranges[i].probability, Zero)

---------------------------------------------------------------------------
(* C17: validateLines returns a result object for every line set and       *)
(* never fails; for the empty line set the result is isValid = true with   *)
(* an empty issue list.                                                    *)

\* The call on the current lines yields a result object, whatever the lines.
ValidateYieldsResult ==
    LET result == validateLines(lines)
    IN  /\ DOMAIN result = {"isValid", "issues"}
        /\ result.isValid \in BOOLEAN
        /\ DOMAIN result.issues = 1..Len(result.issues)
        /\ ValidateReturned => validation = result

C17_AlwaysReturnsResult ==
    /\ ValidateYieldsResult
    /\ (ValidateReturned /\ lines = <<>>) =>
         validation = [isValid |-> TRUE, issues |-> <<>>]

C17_Witness == ValidateReturned /\ lines = <<>>

---------------------------------------------------------------------------
(* C18: for an Over and an Under line at one threshold with equal nonzero  *)
(* odds (-110 and -110 for instance) the no-vig over-probability is        *)
(* exactly 0.5, so calculateProbabilityDistribution on that pair alone     *)
(* returns two ranges of probability 0.5 each.                             *)

IsHalf(x) == 2 * x.n = x.d

EqualOddsPair ==
    /\ Len(lines) = 2
    /\ lines[1].line = lines[2].line
    /\ lines[1].direction # lines[2].direction
    /\ lines[1].odds = lines[2].odds
    /\ lines[1].odds # 0

C18_EqualOddsSplitEvenly ==
    (CalculateReturned /\ EqualOddsPair) =>
        /\ Len(normalized) = 1
        /\ IsHalf(normalized[1].overProbability)
        /\ Len(ranges) = 2
        /\ IsHalf(ranges[1].probability)
        /\ IsHalf(ranges[2].probability)

C18_Witness ==
    /\ CalculateReturned
    /\ EqualOddsPair
    /\ lines[1].odds = -110

---------------------------------------------------------------------------
(* C19: for [Over 30 @ -120, Under 30 @ -120] validateLines emits a 'vig'  *)
(* info issue with margin 1/11 (about 0.0909) and isValid is true, while   *)
(* calculateProbabilityDistribution is unaffected by the vig and splits    *)
(* its two tails 0.5 / 0.5.                                                *)

C19_VigDetection ==
    lines = SPEC_SCENARIOS.vig_detection =>
        /\ ValidateReturned =>
             /\ validation.isValid = TRUE
             /\ Len(validation.issues) = 1
             /\ validation.issues[1].type = "vig"
             /\ validation.issues[1].severity = "info"
             \* the message carries the margin as a percentage
             /\ validation.issues[1].message[2] = Mul(R(1, 11), Int2Num(100))
             /\ Within1e4(R(1, 11), 909)
        /\ CalculateReturned =>
             /\ Len(ranges) = 2
             /\ IsHalf(ranges[1].probability)
             /\ IsHalf(ranges[2].probability)

C19_Witness ==
    /\ lines = SPEC_SCENARIOS.vig_detection
    /\ ValidateReturned
    /\ CalculateReturned

---------------------------------------------------------------------------
(* C20, as stated: for [Over 50.5 @ +200, Over 49.5 @ -300] validateLines  *)
(* reports an error 'contradictory_probabilities' and isValid is false.    *)

C20_ReportedAsContradictory ==
    (ValidateReturned /\ lines = SPEC_SCENARIOS.monotonicity_violation) =>
        /\ HasIssue("contradictory_probabilities", "error")
        /\ validation.isValid = FALSE

(* C20, amended: for [Over 50.5 @ +200, Over 49.5 @ -300] the              *)
(* over-probability falls from 3/4 at 49.5 to 1/3 at 50.5, validateLines   *)
(* reports no issue and isValid is true; with the odds of the two lines    *)
(* exchanged it reports an error 'contradictory_probabilities' and         *)
(* isValid is false.                                                       *)

C20_ContradictoryOnlyWhenExchanged ==
    ValidateReturned =>
        /\ lines = SPEC_SCENARIOS.monotonicity_violation =>
             /\ validation.issues = <<>>
             /\ validation.isValid = TRUE
        /\ lines = SPEC_SCENARIOS.monotonicity_exchanged =>
             /\ HasIssue("contradictory_probabilities", "error")
             /\ validation.isValid = FALSE

C20_Witness ==
    /\ ValidateReturned
    /\ lines = SPEC_SCENARIOS.monotonicity_violation

---------------------------------------------------------------------------
(* C21: for two Over lines at thresholds a + 0.5 and b + 0.5 with integers *)
(* a < b, calculateProbabilityDistribution returns exactly three ranges    *)
(* labelled '<=a', then 'a+1' when b = a + 1 or '(a+1)-b' when b > a + 1,  *)
(* then '>=(b+1)'; with odds -110 and +150 the probabilities are 100/210,  *)
(* 110/210 - 2/5 and 2/5.  The gap case 25.5 / 27.5 gives '<=25', '26-27', *)
(* '>=28'; the consecutive case 28.5 / 29.5 gives '<=28', '29', '>=30'.    *)

TwoOverHalves ==
    /\ Len(lines) = 2
    /\ \A i \in 1..2 : lines[i].direction = "over" /\ lines[i].line.d = 2
    /\ lines[1].line # lines[2].line

Labels(rs) == [i \in 1..Len(rs) |-> rs[i].label]

Probabilities(rs) == [i \in 1..Len(rs) |-> rs[i].probability]

C21_TwoOverLines ==
    (CalculateReturned /\ TwoOverHalves) =>
        LET first == IF Less(lines[1].line, lines[2].line) THEN 1 ELSE 2
            low == lines[first]
            high == lines[3 - first]
            a == Floor(low.line)
            b == Floor(high.line)
        IN  /\ a < b
            /\ Len(ranges) = 3
            /\ ranges[1].label = "<=" \o ToString(a)
            /\ ranges[2].label = IF b = a + 1 THEN ToString(a + 1)
                                 ELSE ToString(a + 1) \o "-" \o ToString(b)
            /\ ranges[3].label = ">=" \o ToString(b + 1)
            /\ (low.odds = -110 /\ high.odds = 150) =>
                 Probabilities(ranges)
                   = <<R(100, 210), Sub(R(110, 210), R(2, 5)), R(2, 5)>>
            /\ lines = EXAMPLE_SCENARIOS.gap =>
                 Labels(ranges) = <<"<=25", "26-27", ">=28">>
            /\ lines = EXAMPLE_SCENARIOS.brady_basic =>
                 Labels(ranges) = <<"<=28", "29", ">=30">>

\* The gap case has returned.
C21_Witness ==
    /\ CalculateReturned
    /\ TwoOverHalves
    /\ lines = EXAMPLE_SCENARIOS.gap

---------------------------------------------------------------------------
(* C22: for [Over 48.5 @ +110, Under 49.5 @ -130] the Under line is        *)
(* converted to the over-probability 1 - P(-130), the over-probability at  *)
(* 49.5 does not exceed the one at 48.5, and the three ranges '<=48',      *)
(* '49', '>=50' are returned with non-negative probabilities that sum to 1.*)

C22_MixedDirections ==
    (CalculateReturned /\ lines = EXAMPLE_SCENARIOS.mixed) =>
        /\ Len(normalized) = 2
        /\ normalized[1].line = R(97, 2)
        /\ normalized[1].overProbability = oddsToImpliedProbability(110)
        /\ normalized[2].line = R(99, 2)
        /\ normalized[2].overProbability = Sub(One, oddsToImpliedProbability(-130))
        /\ normalized[2].overProbability = Sub(One, R(130, 230))
        /\ ~Less(normalized[1].overProbability, normalized[2].overProbability)
        /\ Labels(ranges) = <<"<=48", "49", ">=50">>
        /\ \A i \in 1..Len(ranges) : ~Less(ranges[i].probability, Zero)
        /\ SumOfProbabilities(ranges) = One

C22_Witness ==
    /\ CalculateReturned
    /\ lines = EXAMPLE_SCENARIOS.mixed
    /\ Len(ranges) = 3

---------------------------------------------------------------------------
(* C23: calculateProbabilityDistribution and validateLines are free of     *)
(* side effects on their argument: in every step the caller's line array   *)
(* holds the same lines in the same order, with the same direction,        *)
(* threshold and odds, as before the call.                                 *)

C23_LinesUntouched == [][lines' = lines]_vars

\* Both functions have returned on an array that is not in ascending order,
\* where a sort of the argument would show.
C23_Witness ==
    /\ CalculateReturned
    /\ ValidateReturned
    /\ lines # <<>>
    /\ SortByLine(lines) # lines

---------------------------------------------------------------------------
(* C24: in calculateProbabilityDistribution, for every adjacent pair of    *)
(* distinct thresholds in ascending order, lo = ceil(cur.threshold) never  *)
(* exceeds hi = floor(next.threshold), whatever numeric thresholds the     *)
(* engine is given.  The code breaks this for two thresholds strictly      *)
(* between the same two integers (28.25 and 28.5): lo = 29, hi = 28.       *)

C24_LoNeverExceedsHi ==
    CalculateReturned =>
        \A i \in 1..(Len(normalized) - 1) :
            /\ Ceil(normalized[i].line) <= Floor(normalized[i + 1].line)
            /\ ranges[i + 1].min <= ranges[i + 1].max

---------------------------------------------------------------------------
(* C26: for a line set with pairwise distinct thresholds validateLines and *)
(* calculateProbabilityDistribution agree: isValid is true if and only if  *)
(* every returned range has a non-negative probability.                    *)

NoNegativeRange == \A i \in 1..Len(ranges) : ~Less(ranges[i].probability, Zero)

C26_ValidIffNoNegativeRange ==
    (CalculateReturned /\ ValidateReturned /\ PairwiseDistinctThresholds) =>
        (validation.isValid = TRUE <=> NoNegativeRange)

\* Three distinct thresholds, a negative range, reported as invalid.
C26_Witness ==
    /\ CalculateReturned
    /\ ValidateReturned
    /\ PairwiseDistinctThresholds
    /\ Len(lines) = 3
    /\ ~NoNegativeRange
    /\ validation.isValid = FALSE

---------------------------------------------------------------------------
(* C27: for every non-empty line set with nonzero odds, monotonic or not,  *)
(* the probabilities of the returned ranges sum exactly to 1 (the interior *)
(* differences telescope), so a total of 100% gives no evidence that the   *)
(* line set is consistent.                                                 *)

NonzeroOdds == \A i \in 1..Len(lines) : lines[i].odds # 0

C27_TotalIsAlwaysOne ==
    (CalculateReturned /\ lines # <<>> /\ NonzeroOdds) =>
        /\ Len(ranges) = Len(normalized) + 1
        /\ SumOfProbabilities(ranges) = One

\* A total of 1 with a negative range in it.
C27_Witness ==
    /\ CalculateReturned
    /\ NonzeroOdds
    /\ ~StrictlyDecreasing(normalized)
    /\ ~NoNegativeRange
    /\ SumOfProbabilities(ranges) = One

---------------------------------------------------------------------------
(* C28: in the result of validateLines the error-severity                  *)
(* 'contradictory_probabilities' issues and the 'negative_probability'     *)
(* issues come in equal number: every adjacent pair that raises one raises *)
(* the other, so neither appears without the other.                        *)

\* The pairs of line values the issues of one type name in their messages.
ContradictoryPairsNamed ==
    {<<validation.issues[k].message[1], validation.issues[k].message[3]>> :
        k \in IssueIndexes("contradictory_probabilities", "error")}

NegativePairsNamed ==
    {<<validation.issues[k].message[1], validation.issues[k].message[2]>> :
        k \in IssueIndexes("negative_probability", "error")}

C28_ErrorsComeInPairs ==
    ValidateReturned =>
        /\ Cardinality(IssueIndexes("contradictory_probabilities", "error"))
             = Cardinality(IssueIndexes("negative_probability", "error"))
        /\ ContradictoryPairsNamed = NegativePairsNamed

\* Both errors are present on an input with two entries at one threshold.
C28_Witness ==
    /\ ValidateReturned
    /\ ~PairwiseDistinctThresholds
    /\ HasIssue("contradictory_probabilities", "error")
    /\ HasIssue("negative_probability", "error")

---------------------------------------------------------------------------
(* C25: in the page's line list, from the initial two lines and after any  *)
(* sequence of handleAddLine, handleRemoveLine and example loads, no line  *)
(* has odds 0 and no two lines share both direction and threshold; an add  *)
(* that is rejected (empty field, non-numeric line or odds, odds 0,        *)
(* duplicate direction and threshold) leaves the line list unchanged, and  *)
(* a successful add appends exactly one line at the end.                   *)

NoZeroOdds == \A i \in 1..Len(lines) : lines[i].odds # 0

NoSharedDirectionAndThreshold ==
    \A i, j \in 1..Len(lines) :
        (lines[i].direction = lines[j].direction /\ lines[i].line = lines[j].line)
        => i = j

\* The form holds an entry the page has to reject.
EmptyField == form.lineValue = <<>> \/ form.odds = <<>>

NonNumericField == parseFloat(form.lineValue).nan \/ parseInt(form.odds).nan

ZeroOddsField == ~parseInt(form.odds).nan /\ parseInt(form.odds).value = 0

DuplicateEntry ==
    /\ ~parseFloat(form.lineValue).nan
    /\ \E i \in 1..Len(lines) :
          /\ lines[i].direction = form.direction
          /\ lines[i].line = parseFloat(form.lineValue).value

ToBeRejected == EmptyField \/ NonNumericField \/ ZeroOddsField \/ DuplicateEntry

AddLineStep ==
    handleAddLine =>
        IF ToBeRejected
        THEN lines' = lines
        ELSE /\ Len(lines') = Len(lines) + 1
             /\ SubSeq(lines', 1, Len(lines)) = lines
             /\ lines'[Len(lines')].direction = form.direction
             /\ lines'[Len(lines')].line = parseFloat(form.lineValue).value
             /\ lines'[Len(lines')].odds = parseInt(form.odds).value

C25_PageLineList ==
    /\ [](NoZeroOdds /\ NoSharedDirectionAndThreshold)
    /\ [][AddLineStep]_vars

\* An Under 28.5 line has been added, and another add of it was rejected as
\* a duplicate.
C25_Witness ==
    /\ \E i \in 1..Len(lines) :
          lines[i].direction = "under" /\ lines[i].line = R(57, 2)
    /\ form.direction = "under"
    /\ form.lineValue = <<"2", "8", ".", "5">>
    /\ Len(form.formError) = 4

---------------------------------------------------------------------------
(* C29: for every threshold that has both an Over and an Under line, the   *)
(* Market Efficiency card labels the pair 'vig' exactly when validateLines *)
(* emits a 'vig' issue for that threshold and 'arbitrage' exactly when it  *)
(* emits an 'arbitrage' issue for it, also when the two implied            *)
(* probabilities sum to exactly 1.  The code breaks this at a sum of       *)
(* exactly 1: the card says 'arbitrage', validateLines emits neither.      *)

ThresholdsWithBoth ==
    {t \in DistinctThresholds :
        \E i, j \in 1..Len(lines) :
            /\ lines[i].line = t /\ lines[i].direction = "over"
            /\ lines[j].line = t /\ lines[j].direction = "under"}

CardLabels(t) ==
    {marketEfficiency[i].data.vigOrArbitrage :
        i \in {k \in 1..Len(marketEfficiency) : marketEfficiency[k].lineValue = t}}

C29_CardAgreesWithValidator ==
    \A t \in ThresholdsWithBoth :
        /\ Cardinality(CardLabels(t)) = 1
        /\ "vig" \in CardLabels(t) <=> MarketIssuesAt("vig", t) # {}
        /\ "arbitrage" \in CardLabels(t) <=> MarketIssuesAt("arbitrage", t) # {}

=============================================================================
